---- MODULE Spec2Model ----
(***************************************************************************)
(* A model of streamlit_app.py: one run of the script is a sequence of     *)
(* steps (load, normalise, select, bounds, filter, resolve, render); the   *)
(* widgets' values are the run's inputs.  A dataframe is a sequence of     *)
(* records, one per row, each carrying its pandas index label (index).     *)
(* A CSV cell is a text; the empty text is the empty cell, which read_csv  *)
(* reads as NaN.  A station identifier is a sequence of one-character      *)
(* strings, so that str.strip and str.lower are computed on it.            *)
(***************************************************************************)
EXTENDS Integers, Sequences, FiniteSets

(* ---------------------------------------------------------------- bounds *)

\* The longest uploaded narrow-result table, in rows.
MaxRows == 2

\* The longest uploaded station table, in rows.
MaxStations == 1

(* ----------------------------------------------------------------- cells *)

\* The missing value of a text column (characteristic names).
NaN == "NaN"

\* The missing value of the identifier column.
NaNId == <<"NaN">>

\* What st.sidebar.selectbox returns when it has no option.
None == "None"

\* What st.sidebar.file_uploader returns while nothing is uploaded.
NoFile == [none |-> TRUE]

\* A parsed number or timestamp: NaN/NaT, or a value.
NA == [isna |-> TRUE, v |-> 0]

Val(x) == [isna |-> FALSE, v |-> x]

\* The numeric texts of the model and their values.
NumericLiterals ==
    { <<"1", 1>>, <<"2", 2>>, <<"3", 3>>,
      <<"40", 40>>, <<"41", 41>>, <<"42", 42>>,
      <<"-75", -75>>, <<"-76", -76>>, <<"-77", -77>> }

\* The date texts of the model and their timestamps, in hours since
\* 2020-01-01 00:00.
DateLiterals ==
    { <<"2020-01-01", 0>>, <<"2020-01-01 12:00", 12>>,
      <<"2020-01-02", 24>>, <<"2020-01-02 12:00", 36>> }

HoursPerDay == 24

Lookup(table, text) ==
    IF \E p \in table : p[1] = text
    THEN Val((CHOOSE p \in table : p[1] = text)[2])
    ELSE NA

\* pd.to_numeric(..., errors='coerce'): a number, or NaN for anything else.
to_numeric(cell) == Lookup(NumericLiterals, cell)

\* pd.to_datetime(..., errors='coerce'): a timestamp, or NaT for anything else.
to_datetime(cell) == Lookup(DateLiterals, cell)

\* Timestamp.date() and Series.dt.date: the day, the time of day dropped.
DtDate(ts) == ts \div HoursPerDay

\* Series == scalar on a text column: NaN equals nothing, not even NaN.
EqCell(a, b) == a # NaN /\ b # NaN /\ a = b

(* --------------------------------------------------------- identifiers *)

Whitespace == {" ", "\t"}

UpperCase == <<"A", "B", "C", "D", "E", "F", "G", "H", "I", "J", "K", "L", "M",
               "N", "O", "P", "Q", "R", "S", "T", "U", "V", "W", "X", "Y", "Z">>

LowerCase == <<"a", "b", "c", "d", "e", "f", "g", "h", "i", "j", "k", "l", "m",
               "n", "o", "p", "q", "r", "s", "t", "u", "v", "w", "x", "y", "z">>

Digits == <<"0", "1", "2", "3", "4", "5", "6", "7", "8", "9">>

\* The characters in code-point order.
CodePoints == <<"\t", " ">> \o Digits \o UpperCase \o LowerCase

CharCode(c) == CHOOSE i \in 1..Len(CodePoints) : CodePoints[i] = c

RECURSIVE LStrip(_)
LStrip(s) ==
    IF s # <<>> /\ Head(s) \in Whitespace THEN LStrip(Tail(s)) ELSE s

RECURSIVE RStrip(_)
RStrip(s) ==
    IF s # <<>> /\ s[Len(s)] \in Whitespace
    THEN RStrip(SubSeq(s, 1, Len(s) - 1))
    ELSE s

\* Series.str.strip(): NaN stays NaN.
StrStrip(s) == IF s = NaNId THEN NaNId ELSE RStrip(LStrip(s))

ToLower(c) ==
    IF \E i \in 1..Len(UpperCase) : UpperCase[i] = c
    THEN LowerCase[CHOOSE i \in 1..Len(UpperCase) : UpperCase[i] = c]
    ELSE c

\* Series.str.lower(): NaN stays NaN.
StrLower(s) ==
    IF s = NaNId THEN NaNId ELSE [i \in 1..Len(s) |-> ToLower(s[i])]

\* Normalize with lstrip in place of strip.
NormalizeOneSided(s) == StrLower(IF s = NaNId THEN NaNId ELSE LStrip(s))

\* .str.strip().str.lower() of lines 45 and 46.
Normalize(s) == StrLower(StrStrip(s))

\* Python's order on str: by code point, a proper prefix first.
RECURSIVE StrLess(_, _)
StrLess(a, b) ==
    IF b = <<>> THEN FALSE
    ELSE IF a = <<>> THEN TRUE
    ELSE IF Head(a) = Head(b) THEN StrLess(Tail(a), Tail(b))
    ELSE CharCode(Head(a)) < CharCode(Head(b))

(* ---------------------------------------------------------------- inputs *)

StationColumns ==
    {"MonitoringLocationIdentifier", "LatitudeMeasure", "LongitudeMeasure"}

NarrowresultColumns ==
    {"MonitoringLocationIdentifier", "CharacteristicName",
     "ActivityStartDate", "ResultMeasureValue"}

StationRow(id, lat, lon) ==
    [MonitoringLocationIdentifier |-> id,
     LatitudeMeasure |-> lat,
     LongitudeMeasure |-> lon]

\* The rows a station file is made of: a valid station, one with no
\* latitude, one with a longitude that is no number, one no measurement
\* refers to, one with no identifier.
StationFileRows ==
    { StationRow(<<"S", "1", " ">>, "40", "-75"),
      StationRow(<<"s", "2">>, "", "-76"),
      StationRow(<<"\t", "s", "2", " ">>, "41", "abc"),
      StationRow(<<"s", "3">>, "42", "-77"),
      StationRow(<<>>, "42", "-76") }

NarrowresultRow(id, name, date, value) ==
    [MonitoringLocationIdentifier |-> id,
     CharacteristicName |-> name,
     ActivityStartDate |-> date,
     ResultMeasureValue |-> value]

\* The rows a narrow-result file is made of: measurements of two
\* characteristics at two stations whose identifiers are written in several
\* ways, at midnight and at noon of two days; a row whose date is no date,
\* one whose value is no number, one with no characteristic name, one with
\* no station identifier.
NarrowresultFileRows ==
    { NarrowresultRow(<<"s", "1">>, "Lead", "2020-01-01", "1"),
      NarrowresultRow(<<" ", " ", "S", "1">>, "Lead", "2020-01-02 12:00", "2"),
      NarrowresultRow(<<"S", "2", " ">>, "Lead", "2020-01-01 12:00", "3"),
      NarrowresultRow(<<"s", "2">>, "Zinc", "2020-01-02", "2"),
      NarrowresultRow(<<"s", "1">>, "Lead", "not a date", "1"),
      NarrowresultRow(<<"s", "2">>, "Zinc", "2020-01-01", "abc"),
      NarrowresultRow(<<"s", "1">>, "", "2020-01-01", "1"),
      NarrowresultRow(<<>>, "Lead", "2020-01-02", "1") }

SeqsUpTo(S, n) == UNION { [1..k -> S] : k \in 0..n }

CsvFile(columns, rows) ==
    [parsable |-> TRUE, columns |-> columns, rows |-> rows]

\* A file that is no CSV table.
NotACsvFile == [parsable |-> FALSE, columns |-> {}, rows |-> <<>>]

\* The station files a user may upload: every table of at most MaxStations
\* rows, a table without one of the columns, a file that does not parse.
StationFiles ==
    { CsvFile(StationColumns, rows) : rows \in SeqsUpTo(StationFileRows, MaxStations) }
    \cup { CsvFile(StationColumns \ {c}, <<>>) : c \in StationColumns }
    \cup { NotACsvFile }

NarrowresultFiles ==
    { CsvFile(NarrowresultColumns, rows) :
        rows \in SeqsUpTo(NarrowresultFileRows, MaxRows) }
    \cup { CsvFile(NarrowresultColumns \ {c}, <<>>) : c \in NarrowresultColumns }
    \cup { NotACsvFile }

(* ------------------------------------------------------------ dataframes *)

\* The texts read_csv reads as a missing value.
NaTexts == {"", "NA", "NaN", "null"}

ReadCell(text) == IF text \in NaTexts THEN NaN ELSE text

ReadIdCell(text) == IF text = <<>> THEN NaNId ELSE text

SetMin(S) == CHOOSE x \in S : \A y \in S : x <= y

SetMax(S) == CHOOSE x \in S : \A y \in S : x >= y

Range(s) == { s[i] : i \in 1..Len(s) }

Column(df, c) == [i \in 1..Len(df) |-> df[i][c]]

\* Series.unique(): the distinct values in the order they are first seen.
RECURSIVE Unique(_)
Unique(s) ==
    IF s = <<>> THEN <<>>
    ELSE LET rest == Unique(SubSeq(s, 1, Len(s) - 1))
             x == s[Len(s)]
         IN IF x \in Range(rest) THEN rest ELSE Append(rest, x)

\* pd.read_csv of a station file: row i gets the index label i - 1.
read_csv_station(file) ==
    [i \in 1..Len(file.rows) |->
        [index |-> i - 1,
         MonitoringLocationIdentifier |->
            ReadIdCell(file.rows[i].MonitoringLocationIdentifier),
         LatitudeMeasure |-> ReadCell(file.rows[i].LatitudeMeasure),
         LongitudeMeasure |-> ReadCell(file.rows[i].LongitudeMeasure)]]

HasCoordinates(r) == r.LatitudeMeasure # NaN /\ r.LongitudeMeasure # NaN

\* load_station_data: the rows with both coordinates present.
load_station_data(file) == SelectSeq(read_csv_station(file), HasCoordinates)

\* pd.read_csv of a narrow-result file, then lines 20 and 21: the date and
\* the value converted, NaT and NaN where they do not convert.
read_csv_narrowresult(file) ==
    [i \in 1..Len(file.rows) |->
        [index |-> i - 1,
         MonitoringLocationIdentifier |->
            ReadIdCell(file.rows[i].MonitoringLocationIdentifier),
         CharacteristicName |-> ReadCell(file.rows[i].CharacteristicName),
         ActivityStartDate |->
            to_datetime(ReadCell(file.rows[i].ActivityStartDate)),
         ResultMeasureValue |->
            to_numeric(ReadCell(file.rows[i].ResultMeasureValue))]]

HasDateAndValue(r) ==
    ~r.ActivityStartDate.isna /\ ~r.ResultMeasureValue.isna

\* load_narrowresult_data: the rows whose date and value both converted,
\* which from here on hold the timestamp and the number themselves.
load_narrowresult_data(file) ==
    LET kept == SelectSeq(read_csv_narrowresult(file), HasDateAndValue)
    IN [i \in 1..Len(kept) |->
          [kept[i] EXCEPT !.ActivityStartDate = kept[i].ActivityStartDate.v,
                          !.ResultMeasureValue = kept[i].ResultMeasureValue.v]]

\* Lines 45 and 46: the identifier column rewritten, every row kept.
NormalizeColumn(df) ==
    [i \in 1..Len(df) |->
        [df[i] EXCEPT !.MonitoringLocationIdentifier =
                         Normalize(df[i].MonitoringLocationIdentifier)]]

(* ----------------------------------------------------------------- state *)

VARIABLES
    pc,                    \* the place of the run in the script
    station_file,          \* the station uploader's value
    narrowresult_file,     \* the narrow-result uploader's value
    station_df,
    narrowresult_df,
    contaminants,
    selected_contaminant,
    filtered_initial,
    min_value,
    max_value,
    measurement_range,
    min_date,
    max_date,
    date_range,
    start_date,
    end_date,
    filtered_df,
    filtered_stations,
    m_filtered,            \* the folium map
    trend,                 \* the lines plotted on ax, in plotting order
    rendered,              \* the elements put on the page, in order
    fault                  \* the exception that ended the run, if any

vars ==
    <<pc, station_file, narrowresult_file, station_df, narrowresult_df,
      contaminants, selected_contaminant, filtered_initial, min_value,
      max_value, measurement_range, min_date, max_date, date_range,
      start_date, end_date, filtered_df, filtered_stations, m_filtered,
      trend, rendered, fault>>

\* The variables of the widgets read after the selectbox and of what is
\* derived from them.
afterSelect ==
    <<min_value, max_value, measurement_range, min_date, max_date,
      date_range, start_date, end_date, filtered_df, filtered_stations,
      m_filtered, trend>>

NoMap == [location |-> <<>>, markers |-> <<>>]

NoDateRange == [kind |-> "tuple", items |-> <<>>]

\* A fresh run of the script: nothing is bound yet, the page is empty.
Init ==
    /\ pc = "start"
    /\ station_file = NoFile
    /\ narrowresult_file = NoFile
    /\ station_df = <<>>
    /\ narrowresult_df = <<>>
    /\ contaminants = <<>>
    /\ selected_contaminant = None
    /\ filtered_initial = <<>>
    /\ min_value = 0
    /\ max_value = 0
    /\ measurement_range = <<0, 0>>
    /\ min_date = 0
    /\ max_date = 0
    /\ date_range = NoDateRange
    /\ start_date = 0
    /\ end_date = 0
    /\ filtered_df = <<>>
    /\ filtered_stations = <<>>
    /\ m_filtered = NoMap
    /\ trend = <<>>
    /\ rendered = <<>>
    /\ fault = "none"

\* An exception nothing catches: the run ends where it is raised.
Raise(exception) ==
    /\ pc' = "crashed"
    /\ fault' = exception

(* ------------------------------------------------------------- the script *)

\* Lines 27-39 and 134-135: the title, the two uploaders, and the message
\* shown while a file is missing.
ScriptStart ==
    /\ pc = "start"
    /\ \E sf \in StationFiles \cup {NoFile},
          nf \in NarrowresultFiles \cup {NoFile} :
          /\ station_file' = sf
          /\ narrowresult_file' = nf
          /\ IF sf # NoFile /\ nf # NoFile
             THEN /\ pc' = "load_station"
                  /\ rendered' = <<"title", "file_uploader", "file_uploader">>
             ELSE /\ pc' = "done"
                  /\ rendered' =
                        <<"title", "file_uploader", "file_uploader", "info">>
    /\ UNCHANGED <<station_df, narrowresult_df, contaminants,
                   selected_contaminant, filtered_initial, afterSelect, fault>>

\* Line 41: load_station_data.  read_csv raises on a file that is no table,
\* dropna on a missing coordinate column.
LoadStation ==
    /\ pc = "load_station"
    /\ IF ~station_file.parsable
       THEN Raise("ParserError") /\ UNCHANGED station_df
       ELSE IF ~({"LatitudeMeasure", "LongitudeMeasure"} \subseteq station_file.columns)
       THEN Raise("KeyError") /\ UNCHANGED station_df
       ELSE /\ station_df' = load_station_data(station_file)
            /\ pc' = "load_narrowresult"
            /\ UNCHANGED fault
    /\ UNCHANGED <<station_file, narrowresult_file, narrowresult_df,
                   contaminants, selected_contaminant, filtered_initial,
                   afterSelect, rendered>>

\* Line 42: load_narrowresult_data.  Lines 20 and 21 raise on a missing
\* date or value column.
LoadNarrowresult ==
    /\ pc = "load_narrowresult"
    /\ IF ~narrowresult_file.parsable
       THEN Raise("ParserError") /\ UNCHANGED narrowresult_df
       ELSE IF ~({"ActivityStartDate", "ResultMeasureValue"}
                    \subseteq narrowresult_file.columns)
       THEN Raise("KeyError") /\ UNCHANGED narrowresult_df
       ELSE /\ narrowresult_df' = load_narrowresult_data(narrowresult_file)
            /\ pc' = "normalize"
            /\ UNCHANGED fault
    /\ UNCHANGED <<station_file, narrowresult_file, station_df,
                   contaminants, selected_contaminant, filtered_initial,
                   afterSelect, rendered>>

\* Whether read_csv gave the identifier column of a file the dtype object,
\* on which the .str accessor works: the table has no row, or some row has
\* an identifier.  A column of empty cells alone is read as float64.
HasTextIdentifiers(file) ==
    \/ file.rows = <<>>
    \/ \E i \in 1..Len(file.rows) : file.rows[i].MonitoringLocationIdentifier # <<>>

\* What reading and normalising the identifier column of a file raises.
IdentifierFault(file) ==
    IF "MonitoringLocationIdentifier" \notin file.columns THEN "KeyError"
    ELSE IF ~HasTextIdentifiers(file) THEN "AttributeError"
    ELSE "none"

\* Lines 45 and 46: both identifier columns normalised.  Reading a missing
\* identifier column raises, and so does .str on a column that holds no
\* text; line 45 runs first.
NormalizeIdentifiers ==
    /\ pc = "normalize"
    /\ IF IdentifierFault(station_file) # "none"
       THEN /\ Raise(IdentifierFault(station_file))
            /\ UNCHANGED <<station_df, narrowresult_df>>
       ELSE IF IdentifierFault(narrowresult_file) # "none"
       THEN /\ Raise(IdentifierFault(narrowresult_file))
            /\ station_df' = NormalizeColumn(station_df)
            /\ UNCHANGED narrowresult_df
       ELSE /\ station_df' = NormalizeColumn(station_df)
            /\ narrowresult_df' = NormalizeColumn(narrowresult_df)
            /\ pc' = "select"
            /\ UNCHANGED fault
    /\ UNCHANGED <<station_file, narrowresult_file, contaminants,
                   selected_contaminant, filtered_initial, afterSelect,
                   rendered>>

\* OfContaminant without the comparison: every row of df.
OfContaminantAll(df, selected) == df

\* The rows of df whose characteristic name equals the selected one.
OfContaminant(df, selected) ==
    SelectSeq(df, LAMBDA r : EqCell(r.CharacteristicName, selected))

\* Lines 48-54: the selectbox offers the distinct characteristic names and
\* returns the one the user has selected, None when it has no option.
SelectContaminant ==
    /\ pc = "select"
    /\ IF "CharacteristicName" \notin narrowresult_file.columns
       THEN /\ Raise("KeyError")
            /\ UNCHANGED <<contaminants, selected_contaminant,
                           filtered_initial, rendered>>
       ELSE LET names == Unique(Column(narrowresult_df, "CharacteristicName"))
            IN /\ contaminants' = names
               /\ \E selected \in (IF names = <<>> THEN {None} ELSE Range(names)) :
                     /\ selected_contaminant' = selected
                     /\ filtered_initial' = OfContaminant(narrowresult_df, selected)
               /\ rendered' = Append(rendered, "selectbox")
               /\ pc' = "check_empty"
               /\ UNCHANGED fault
    /\ UNCHANGED <<station_file, narrowresult_file, station_df,
                   narrowresult_df, afterSelect>>

\* DataFrame.empty of line 55.
IsEmpty(df) == Len(df) = 0

\* EmptySelection without the else of line 57: the error is shown and the
\* run goes on to the trend chart.
EmptySelectionRendersOn ==
    /\ pc = "check_empty"
    /\ IsEmpty(filtered_initial)
    /\ rendered' = Append(rendered, "error")
    /\ pc' = "trend"
    /\ UNCHANGED <<station_file, narrowresult_file, station_df,
                   narrowresult_df, contaminants, selected_contaminant,
                   filtered_initial, afterSelect, fault>>

\* Lines 55-56: no record of the selected contaminant.
EmptySelection ==
    /\ pc = "check_empty"
    /\ IsEmpty(filtered_initial)
    /\ rendered' = Append(rendered, "error")
    /\ pc' = "done"
    /\ UNCHANGED <<station_file, narrowresult_file, station_df,
                   narrowresult_df, contaminants, selected_contaminant,
                   filtered_initial, afterSelect, fault>>

\* Lines 59-60 and 68-69: the least and the greatest of a column.
ColumnMin(df, c) == SetMin(Range(Column(df, c)))

ColumnMax(df, c) == SetMax(Range(Column(df, c)))

\* Lines 58-65: the value bounds of the selected contaminant and the range
\* the slider returns, a pair lo <= hi within the bounds.
ValueSlider ==
    /\ pc = "check_empty"
    /\ ~IsEmpty(filtered_initial)
    /\ LET lo == ColumnMin(filtered_initial, "ResultMeasureValue")
           hi == ColumnMax(filtered_initial, "ResultMeasureValue")
       IN /\ min_value' = lo
          /\ max_value' = hi
          /\ \E a \in lo..hi, b \in lo..hi :
                /\ a <= b
                /\ measurement_range' = <<a, b>>
    /\ rendered' = Append(rendered, "slider")
    /\ pc' = "date_input"
    /\ UNCHANGED <<station_file, narrowresult_file, station_df,
                   narrowresult_df, contaminants, selected_contaminant,
                   filtered_initial, min_date, max_date, date_range,
                   start_date, end_date, filtered_df, filtered_stations,
                   m_filtered, trend, fault>>

\* What st.date_input may return for a range within [lo, hi]: a single
\* date, or a tuple of no, one or two dates.
DateInputValues(lo, hi) ==
    { [kind |-> "date", items |-> <<d>>] : d \in lo..hi }
    \cup { [kind |-> "tuple", items |-> t] : t \in SeqsUpTo(lo..hi, 2) }

\* IsPair testing for a list, which the date input never returns.
IsPairList(range) == range.kind = "list" /\ Len(range.items) = 2

\* Line 74: isinstance(date_range, tuple) and len(date_range) == 2.
IsPair(range) == range.kind = "tuple" /\ Len(range.items) = 2

\* Lines 67-78: the date bounds of the selected contaminant, the value of
\* the date input, and the start and end date taken from it.
DateInput ==
    /\ pc = "date_input"
    /\ LET lo == DtDate(ColumnMin(filtered_initial, "ActivityStartDate"))
           hi == DtDate(ColumnMax(filtered_initial, "ActivityStartDate"))
       IN /\ min_date' = lo
          /\ max_date' = hi
          /\ \E range \in DateInputValues(lo, hi) :
                /\ date_range' = range
                /\ IF IsPair(range)
                   THEN start_date' = range.items[1] /\ end_date' = range.items[2]
                   ELSE start_date' = lo /\ end_date' = hi
    /\ rendered' = Append(rendered, "date_input")
    /\ pc' = "filter"
    /\ UNCHANGED <<station_file, narrowresult_file, station_df,
                   narrowresult_df, contaminants, selected_contaminant,
                   filtered_initial, min_value, max_value, measurement_range,
                   filtered_df, filtered_stations, m_filtered, trend, fault>>

\* Mask with < in place of <= at the upper end of the value range.
MaskExclusive(r, selected, range, start, end) ==
    /\ EqCell(r.CharacteristicName, selected)
    /\ r.ResultMeasureValue >= range[1]
    /\ r.ResultMeasureValue < range[2]
    /\ DtDate(r.ActivityStartDate) >= start
    /\ DtDate(r.ActivityStartDate) <= end

\* Mask comparing the timestamp, not its day, with the dates at midnight.
MaskMidnight(r, selected, range, start, end) ==
    /\ EqCell(r.CharacteristicName, selected)
    /\ r.ResultMeasureValue >= range[1]
    /\ r.ResultMeasureValue <= range[2]
    /\ r.ActivityStartDate >= start * HoursPerDay
    /\ r.ActivityStartDate <= end * HoursPerDay

\* Lines 81-87: the mask of one row.
Mask(r, selected, range, start, end) ==
    /\ EqCell(r.CharacteristicName, selected)
    /\ r.ResultMeasureValue >= range[1]
    /\ r.ResultMeasureValue <= range[2]
    /\ DtDate(r.ActivityStartDate) >= start
    /\ DtDate(r.ActivityStartDate) <= end

\* Lines 80-91: the filtered records and their count.
FilterRecords ==
    /\ pc = "filter"
    /\ filtered_df' =
          SelectSeq(narrowresult_df,
                    LAMBDA r : Mask(r, selected_contaminant, measurement_range,
                                    start_date, end_date))
    /\ rendered' = Append(rendered, "total_records")
    /\ pc' = "resolve"
    /\ UNCHANGED <<station_file, narrowresult_file, station_df,
                   narrowresult_df, contaminants, selected_contaminant,
                   filtered_initial, min_value, max_value, measurement_range,
                   min_date, max_date, date_range, start_date, end_date,
                   filtered_stations, m_filtered, trend, fault>>

\* Series.isin(values): NaN is among the values when one of them is NaN.
IsIn(x, values) == x \in Range(values)

\* CoerceCoordinates dropping a row only when its latitude does not convert.
CoerceCoordinatesLatitudeOnly(df) ==
    LET coerced == [i \in 1..Len(df) |->
                      [df[i] EXCEPT
                         !.LatitudeMeasure = to_numeric(df[i].LatitudeMeasure),
                         !.LongitudeMeasure = to_numeric(df[i].LongitudeMeasure)]]
        kept == SelectSeq(coerced, LAMBDA r : ~r.LatitudeMeasure.isna)
    IN [i \in 1..Len(kept) |->
          [kept[i] EXCEPT !.LatitudeMeasure = kept[i].LatitudeMeasure.v,
                          !.LongitudeMeasure = kept[i].LongitudeMeasure.v]]

\* Lines 97-99: both coordinates converted, the rows where one does not
\* convert dropped; the rows kept hold the numbers.
CoerceCoordinates(df) ==
    LET coerced == [i \in 1..Len(df) |->
                      [df[i] EXCEPT
                         !.LatitudeMeasure = to_numeric(df[i].LatitudeMeasure),
                         !.LongitudeMeasure = to_numeric(df[i].LongitudeMeasure)]]
        kept == SelectSeq(coerced,
                          LAMBDA r : ~r.LatitudeMeasure.isna
                                     /\ ~r.LongitudeMeasure.isna)
    IN [i \in 1..Len(kept) |->
          [kept[i] EXCEPT !.LatitudeMeasure = kept[i].LatitudeMeasure.v,
                          !.LongitudeMeasure = kept[i].LongitudeMeasure.v]]

\* Lines 93-99: the stations the filtered records name, with coordinates
\* that are numbers.
Resolve(stations, filtered) ==
    LET station_names == Unique(Column(filtered, "MonitoringLocationIdentifier"))
    IN CoerceCoordinates(
          SelectSeq(stations,
                    LAMBDA r : IsIn(r.MonitoringLocationIdentifier, station_names)))

ResolveStations ==
    /\ pc = "resolve"
    /\ filtered_stations' = Resolve(station_df, filtered_df)
    /\ rendered' = Append(rendered, "map_subheader")
    /\ pc' = "map"
    /\ UNCHANGED <<station_file, narrowresult_file, station_df,
                   narrowresult_df, contaminants, selected_contaminant,
                   filtered_initial, min_value, max_value, measurement_range,
                   min_date, max_date, date_range, start_date, end_date,
                   filtered_df, m_filtered, trend, fault>>

RECURSIVE SeqSum(_)
SeqSum(s) == IF s = <<>> THEN 0 ELSE Head(s) + SeqSum(Tail(s))

\* Series.mean() as the fraction <<sum, count>>.
Mean(s) == <<SeqSum(s), Len(s)>>

\* Lines 102-114: the map centred on the mean coordinate, a marker per row.
RenderMap ==
    /\ pc = "map"
    /\ ~IsEmpty(filtered_stations)
    /\ m_filtered' =
          [location |-> <<Mean(Column(filtered_stations, "LatitudeMeasure")),
                          Mean(Column(filtered_stations, "LongitudeMeasure"))>>,
           markers |->
              [i \in 1..Len(filtered_stations) |->
                 [location |-> <<filtered_stations[i].LatitudeMeasure,
                                 filtered_stations[i].LongitudeMeasure>>,
                  popup |-> filtered_stations[i].MonitoringLocationIdentifier]]]
    /\ rendered' = Append(rendered, "map")
    /\ pc' = "trend"
    /\ UNCHANGED <<station_file, narrowresult_file, station_df,
                   narrowresult_df, contaminants, selected_contaminant,
                   filtered_initial, min_value, max_value, measurement_range,
                   min_date, max_date, date_range, start_date, end_date,
                   filtered_df, filtered_stations, trend, fault>>

\* Lines 115-116: no station to show.
NoStations ==
    /\ pc = "map"
    /\ IsEmpty(filtered_stations)
    /\ rendered' = Append(rendered, "no_stations")
    /\ pc' = "trend"
    /\ UNCHANGED <<station_file, narrowresult_file, station_df,
                   narrowresult_df, contaminants, selected_contaminant,
                   filtered_initial, afterSelect, fault>>

\* A set of identifiers as the sequence ascending in Python's order.
RECURSIVE Ascending(_)
Ascending(S) ==
    IF S = {} THEN <<>>
    ELSE LET least == CHOOSE x \in S : \A y \in S \ {x} : StrLess(x, y)
         IN <<least>> \o Ascending(S \ {least})

\* GroupKeys taken from the resolved stations, not from df.
GroupKeysResolved(df) ==
    Ascending((Range(Column(df, "MonitoringLocationIdentifier"))
               \cap Range(Column(filtered_stations, "MonitoringLocationIdentifier")))
              \ {NaNId})

\* The group keys of groupby("MonitoringLocationIdentifier"): the distinct
\* identifiers, sorted (sort=True), NaN left out (dropna=True).
GroupKeys(df) ==
    Ascending(Range(Column(df, "MonitoringLocationIdentifier")) \ {NaNId})

\* The rows of one group, in the order of df.
Group(df, site) ==
    SelectSeq(df, LAMBDA r : r.MonitoringLocationIdentifier = site)

\* SortValues without the sort: the rows as they come.
SortValuesUnsorted(group) == {group}

\* sort_values("ActivityStartDate") with the default, unstable sort: the
\* rows in ascending order of the timestamp, equal timestamps in any order.
SortValues(group) ==
    LET n == Len(group)
        orders == { f \in [1..n -> 1..n] : \A i, j \in 1..n : i # j => f[i] # f[j] }
    IN { [i \in 1..n |-> group[f[i]]] : f \in
           { g \in orders : \A i \in 1..n - 1 :
                group[g[i]].ActivityStartDate <= group[g[i + 1]].ActivityStartDate } }

\* The lines the loop of lines 121-127 may plot, group by group.
TrendLines(df) ==
    LET keys == GroupKeys(df)
        lines(site) ==
            { [label |-> site, rows |-> sorted] : sorted \in SortValues(Group(df, site)) }
    IN { t \in [1..Len(keys) -> UNION { lines(site) : site \in Range(keys) }] :
            \A i \in 1..Len(keys) : t[i] \in lines(keys[i]) }

\* Lines 118-133: one line per station of the filtered records.
RenderTrend ==
    /\ pc = "trend"
    /\ trend' \in TrendLines(filtered_df)
    /\ rendered' = Append(rendered, "trend")
    /\ pc' = "done"
    /\ UNCHANGED <<station_file, narrowresult_file, station_df,
                   narrowresult_df, contaminants, selected_contaminant,
                   filtered_initial, min_value, max_value, measurement_range,
                   min_date, max_date, date_range, start_date, end_date,
                   filtered_df, filtered_stations, m_filtered, fault>>

\* An interaction after the run has ended: the script runs again from its
\* first line.
Rerun ==
    /\ pc \in {"done", "crashed"}
    /\ pc' = "start"
    /\ station_file' = NoFile
    /\ narrowresult_file' = NoFile
    /\ station_df' = <<>>
    /\ narrowresult_df' = <<>>
    /\ contaminants' = <<>>
    /\ selected_contaminant' = None
    /\ filtered_initial' = <<>>
    /\ min_value' = 0
    /\ max_value' = 0
    /\ measurement_range' = <<0, 0>>
    /\ min_date' = 0
    /\ max_date' = 0
    /\ date_range' = NoDateRange
    /\ start_date' = 0
    /\ end_date' = 0
    /\ filtered_df' = <<>>
    /\ filtered_stations' = <<>>
    /\ m_filtered' = NoMap
    /\ trend' = <<>>
    /\ rendered' = <<>>
    /\ fault' = "none"

Next ==
    \/ ScriptStart
    \/ LoadStation
    \/ LoadNarrowresult
    \/ NormalizeIdentifiers
    \/ SelectContaminant
    \/ EmptySelection
    \/ ValueSlider
    \/ DateInput
    \/ FilterRecords
    \/ ResolveStations
    \/ RenderMap
    \/ NoStations
    \/ RenderTrend
    \/ Rerun

Spec == Init /\ [][Next]_vars

(* ---------------------------------------------------------------- claims *)

Shown(element) == element \in Range(rendered)

\* The steps of the run that have acted, read off the page.
Selected == Shown("selectbox")

Filtered == Shown("total_records")

Resolved == Shown("map_subheader")

\* The loaded measurement rows of the selected characteristic.
Matching ==
    { r \in Range(narrowresult_df) :
        r.CharacteristicName # NaN /\ r.CharacteristicName = selected_contaminant }

IndexOf(df) == { df[i].index : i \in 1..Len(df) }

\* C1: a loaded measurement row is in the filtered result set if and only if
\* its characteristic name is the selected one, its value lies in the value
\* range and its day (the time of day ignored) lies in the date range, both
\* ends of both ranges included; the filtered set holds no other row.
C1_FilterIsExact ==
    Filtered =>
        /\ Range(filtered_df) \subseteq Range(narrowresult_df)
        /\ \A r \in Range(narrowresult_df) :
              r \in Range(filtered_df) <=>
                 /\ r.CharacteristicName = selected_contaminant
                 /\ measurement_range[1] <= r.ResultMeasureValue
                 /\ r.ResultMeasureValue <= measurement_range[2]
                 /\ start_date * HoursPerDay <= r.ActivityStartDate
                 /\ r.ActivityStartDate < (end_date + 1) * HoursPerDay

\* A row kept at the upper end of the value range, at noon of the end date,
\* beside a row of the same characteristic left out for a value just above.
C1_Witness ==
    /\ Filtered
    /\ \E r \in Range(filtered_df) :
          /\ r.ResultMeasureValue = measurement_range[2]
          /\ DtDate(r.ActivityStartDate) = end_date
          /\ r.ActivityStartDate % HoursPerDay # 0
    /\ \E q \in Range(narrowresult_df) \ Range(filtered_df) :
          /\ q.CharacteristicName = selected_contaminant
          /\ q.ResultMeasureValue = measurement_range[2] + 1

\* C2: the value bounds and the date bounds offered to the controls are the
\* least and the greatest value, and the least and the greatest day, of the
\* rows of the selected characteristic alone.
C2_BoundsOfSelected ==
    /\ Shown("slider") =>
          /\ \E r \in Matching : r.ResultMeasureValue = min_value
          /\ \E r \in Matching : r.ResultMeasureValue = max_value
          /\ \A r \in Matching :
                min_value <= r.ResultMeasureValue /\ r.ResultMeasureValue <= max_value
    /\ Shown("date_input") =>
          /\ \E r \in Matching : r.ActivityStartDate \div HoursPerDay = min_date
          /\ \E r \in Matching : r.ActivityStartDate \div HoursPerDay = max_date
          /\ \A r \in Matching :
                /\ min_date <= r.ActivityStartDate \div HoursPerDay
                /\ r.ActivityStartDate \div HoursPerDay <= max_date

\* Bounds taken while a row of another characteristic lies outside them, in
\* value and in day.
C2_Witness ==
    /\ Shown("date_input")
    /\ \E q \in Range(narrowresult_df) \ Matching :
          /\ q.ResultMeasureValue > max_value
          /\ DtDate(q.ActivityStartDate) < min_date

\* C3: when no row has the selected characteristic the run shows the error
\* and none of the slider, the date input, the record count, the map and
\* the trend chart; when a row has it the error is not shown.
C3_EmptySelection ==
    /\ (Selected /\ Matching = {}) =>
          /\ ~Shown("slider") /\ ~Shown("date_input") /\ ~Shown("total_records")
          /\ ~Shown("map") /\ ~Shown("trend")
          /\ m_filtered = NoMap /\ trend = <<>>
          /\ pc = "done" => Shown("error")
    /\ (Selected /\ Matching # {}) => ~Shown("error")
    /\ Shown("error") => Selected /\ Matching = {}

\* The error shown over a table that has rows, none of them of the selected
\* characteristic.
C3_Witness ==
    /\ pc = "done"
    /\ Shown("error")
    /\ narrowresult_df # <<>>

\* C4: filtering with the default ranges, the value bounds and the full date
\* span of the selected characteristic, returns exactly the rows of the
\* selected characteristic.
C4_DefaultRangesKeepAll ==
    ( /\ Filtered
      /\ measurement_range = <<min_value, max_value>>
      /\ date_range = [kind |-> "tuple", items |-> <<min_date, max_date>>] )
    => Range(filtered_df) =
          { r \in Range(narrowresult_df) : r.CharacteristicName = selected_contaminant }

\* The default ranges over two rows of the selected characteristic that
\* differ in value and day, the later one at noon, beside nothing else.
C4_Witness ==
    /\ Filtered
    /\ measurement_range = <<min_value, max_value>>
    /\ date_range = [kind |-> "tuple", items |-> <<min_date, max_date>>]
    /\ min_value < max_value
    /\ min_date < max_date
    /\ \E r \in Range(filtered_df) :
          /\ DtDate(r.ActivityStartDate) = max_date
          /\ r.ActivityStartDate % HoursPerDay # 0

\* A cell that holds a number.
NumericText(cell) == \E p \in NumericLiterals : p[1] = cell

\* C5: the resolved stations are exactly the station rows whose normalised
\* identifier is among the identifiers of the filtered measurements and
\* whose latitude and longitude are both numbers; a row of the uploaded
\* station file with a missing or non-numeric coordinate is never resolved.
C5_ResolvedStations ==
    Resolved =>
        /\ IndexOf(filtered_stations) \subseteq IndexOf(station_df)
        /\ \A s \in Range(station_df) :
              s.index \in IndexOf(filtered_stations) <=>
                 /\ \E m \in Range(filtered_df) :
                       m.MonitoringLocationIdentifier = s.MonitoringLocationIdentifier
                 /\ NumericText(s.LatitudeMeasure)
                 /\ NumericText(s.LongitudeMeasure)
        /\ \A i \in 1..Len(station_file.rows) :
              ( ~NumericText(station_file.rows[i].LatitudeMeasure)
                \/ ~NumericText(station_file.rows[i].LongitudeMeasure) )
              => (i - 1) \notin IndexOf(filtered_stations)

\* A station that a filtered measurement refers to and that is not resolved
\* because its longitude is no number.
C5_Witness ==
    /\ Resolved
    /\ \E s \in Range(station_df) :
          /\ \E m \in Range(filtered_df) :
                m.MonitoringLocationIdentifier = s.MonitoringLocationIdentifier
          /\ NumericText(s.LatitudeMeasure)
          /\ ~NumericText(s.LongitudeMeasure)
          /\ s.index \notin IndexOf(filtered_stations)

\* C6: no failure of a run propagates as an uncaught fault; a table that
\* lacks a required column or does not parse ends the run with a message.
C6_FailuresAreHandled ==
    /\ fault = "none"
    /\ pc # "crashed"

\* C7: when no station is resolved the run shows the message in place of
\* the map and still shows the record count and the trend chart; the chart
\* has a line for every station identifier of the filtered measurements,
\* on the map or not.
C7_TrendWithoutMap ==
    (pc = "done" /\ Filtered) =>
        /\ Shown("trend")
        /\ IsEmpty(filtered_stations) =>
              Shown("no_stations") /\ ~Shown("map") /\ m_filtered = NoMap
        /\ ~IsEmpty(filtered_stations) => Shown("map") /\ ~Shown("no_stations")
        /\ { trend[i].label : i \in 1..Len(trend) } =
              { r.MonitoringLocationIdentifier : r \in Range(filtered_df) } \ {NaNId}

\* A finished run with no map and a line for a station whose row in the
\* station table has a coordinate that is no number.
C7_Witness ==
    /\ pc = "done"
    /\ Shown("no_stations")
    /\ \E i \in 1..Len(trend) :
          \E s \in Range(station_df) :
             /\ s.MonitoringLocationIdentifier = trend[i].label
             /\ ~NumericText(s.LongitudeMeasure)

\* C8: a date input that is not a tuple of two dates makes the run use the
\* full date bounds of the selected characteristic, and the run goes on: no
\* row is left out for its date; a tuple of two dates is used as it is.
C8_DateRangeFallback ==
    Shown("date_input") =>
        /\ fault = "none"
        /\ (date_range.kind = "tuple" /\ Len(date_range.items) = 2) =>
              start_date = date_range.items[1] /\ end_date = date_range.items[2]
        /\ ~(date_range.kind = "tuple" /\ Len(date_range.items) = 2) =>
              /\ start_date = min_date /\ end_date = max_date
              /\ Filtered =>
                    Range(filtered_df) =
                       { r \in Matching :
                           /\ measurement_range[1] <= r.ResultMeasureValue
                           /\ r.ResultMeasureValue <= measurement_range[2] }

\* A tuple of one date, the last day, and a row of the first day kept.
C8_Witness ==
    /\ Filtered
    /\ date_range.kind = "tuple"
    /\ Len(date_range.items) = 1
    /\ min_date < max_date
    /\ date_range.items[1] = max_date
    /\ \E r \in Range(filtered_df) : DtDate(r.ActivityStartDate) = min_date

\* The texts left of x when whitespace is taken off its two ends.
Trimmed(x) ==
    { SubSeq(x, p[1], p[2]) :
        p \in { q \in (1..Len(x) + 1) \X (0..Len(x)) :
                  /\ q[1] <= q[2] + 1
                  /\ \A i \in 1..q[1] - 1 : x[i] \in Whitespace
                  /\ \A i \in q[2] + 1..Len(x) : x[i] \in Whitespace } }

SameLetter(c, d) ==
    \/ c = d
    \/ \E k \in 1..Len(UpperCase) : {c, d} = {UpperCase[k], LowerCase[k]}

\* Two identifiers as written in the files that differ at most in
\* surrounding whitespace and in letter case.
SameIdentifier(x, y) ==
    \E u \in Trimmed(x), v \in Trimmed(y) :
       /\ Len(u) = Len(v)
       /\ \A i \in 1..Len(u) : SameLetter(u[i], v[i])

\* The identifier cell a row of a dataframe was read from.
WrittenId(file, r) == file.rows[r.index + 1].MonitoringLocationIdentifier

\* C9: normalising a normalised identifier changes nothing, and both tables
\* are normalised before filtering: once the identifiers are normalised,
\* two that the files write alike up to case and surrounding whitespace are
\* equal, and once the stations are resolved, a station with numeric
\* coordinates that a filtered measurement names in that way is resolved.
C9_NormalizedIdentifiers ==
    /\ pc = "select" =>
          /\ \A r \in Range(station_df) \cup Range(narrowresult_df) :
                Normalize(r.MonitoringLocationIdentifier) = r.MonitoringLocationIdentifier
          /\ \A s \in Range(station_df), m \in Range(narrowresult_df) :
                SameIdentifier(WrittenId(station_file, s), WrittenId(narrowresult_file, m))
                => s.MonitoringLocationIdentifier = m.MonitoringLocationIdentifier
    /\ pc = "map" =>
          \A s \in Range(station_df), m \in Range(filtered_df) :
             ( /\ NumericText(s.LatitudeMeasure)
               /\ NumericText(s.LongitudeMeasure)
               /\ SameIdentifier(WrittenId(station_file, s), WrittenId(narrowresult_file, m)) )
             => s.index \in IndexOf(filtered_stations)

\* A station resolved through a measurement whose file writes its
\* identifier differently, in case and in whitespace.
C9_Witness ==
    /\ Resolved
    /\ \E s \in Range(filtered_stations), m \in Range(filtered_df) :
          /\ s.MonitoringLocationIdentifier = m.MonitoringLocationIdentifier
          /\ WrittenId(station_file, s) # WrittenId(narrowresult_file, m)
          /\ WrittenId(station_file, s) # s.MonitoringLocationIdentifier
          /\ WrittenId(narrowresult_file, m) # m.MonitoringLocationIdentifier

\* C10: the trend chart has exactly one line per distinct station
\* identifier of the filtered records; a line holds exactly the filtered
\* rows of its station, in ascending order of the activity date; the lines
\* come in one order fixed by the input, ascending by identifier.
C10_TrendSeries ==
    Shown("trend") =>
        /\ { trend[i].label : i \in 1..Len(trend) } =
              { r.MonitoringLocationIdentifier : r \in Range(filtered_df) } \ {NaNId}
        /\ \A i \in 1..Len(trend) - 1 : StrLess(trend[i].label, trend[i + 1].label)
        /\ \A i \in 1..Len(trend) :
              LET rows == trend[i].rows
              IN /\ Range(rows) =
                       { r \in Range(filtered_df) :
                           r.MonitoringLocationIdentifier = trend[i].label }
                 /\ Cardinality(Range(rows)) = Len(rows)
                 /\ \A k \in 1..Len(rows) - 1 :
                       rows[k].ActivityStartDate <= rows[k + 1].ActivityStartDate

\* A line of two rows that the file holds in the other order.
C10_Witness ==
    /\ Shown("trend")
    /\ \E i \in 1..Len(trend) :
          /\ Len(trend[i].rows) = 2
          /\ trend[i].rows[1].index > trend[i].rows[2].index
          /\ trend[i].rows[1].ActivityStartDate < trend[i].rows[2].ActivityStartDate

====
